---- MODULE Spec2Model ----
(***************************************************************************)
(* Model of process_pdf_to_outline (challenge1a/pdfextract.py): the        *)
(* style-based outline inference over the lines of one PDF document.       *)
(*                                                                         *)
(* A text is a sequence of one-character strings.  A span is a record      *)
(* [text, size, flags, color]; its size is held in half points (21 is      *)
(* 10.5pt) so that round() has something to round.  An item of the page    *)
(* stream is one line of a block: [type, spans, bbox], the block's type    *)
(* carried on the line (a block of type # 0 is an image and has no lines). *)
(***************************************************************************)
EXTENDS Integers, Sequences, FiniteSets, TLC

\* ---------------------------------------------------------------- bounds
MaxLines == 3
MaxPages == 2
MaxHeadingLines == 5
MaxPruneLines == 6
MaxSpans == 3
MaxTextLen == 4

\* ------------------------------------------------------ program constants
WordLimit == 40
BoldBit == 2

None == <<>>

EmptyDocument ==
  <<"E","m","p","t","y"," ","D","o","c","u","m","e","n","t">>
UntitledDocument ==
  <<"U","n","t","i","t","l","e","d"," ","D","o","c","u","m","e","n","t">>

\* ------------------------------------------------------------ characters
Whitespace == {" ", "\t", "\n", "\r", "\f"}
Digits == {"0","1","2","3","4","5","6","7","8","9"}
Upper == {"A","B","C","D","E","F","G","H","I","J","K","L","M",
          "N","O","P","Q","R","S","T","U","V","W","X","Y","Z"}

\* ------------------------------------------------------------- str methods
\* " ".join(texts)
RECURSIVE JoinTexts(_)
JoinTexts(ts) ==
  IF Len(ts) = 0 THEN <<>>
  ELSE IF Len(ts) = 1 THEN ts[1]
  ELSE ts[1] \o <<" ">> \o JoinTexts(Tail(ts))

\* str.strip(): leading and trailing whitespace removed
\* variant: nothing removed
StripNoop(t) == t
Strip(t) ==
  LET keep == {i \in 1..Len(t) : t[i] \notin Whitespace}
  IN IF keep = {} THEN <<>>
     ELSE LET lo == CHOOSE i \in keep : \A j \in keep : i <= j
              hi == CHOOSE i \in keep : \A j \in keep : j <= i
          IN SubSeq(t, lo, hi)

\* len(str.split()): the number of maximal runs of non-whitespace
WordCount(t) ==
  Cardinality({i \in 1..Len(t) :
                 /\ t[i] \notin Whitespace
                 /\ (i = 1 \/ t[i-1] \in Whitespace)})

\* str.endswith(('.', ':'))
EndsWithStop(t) == Len(t) > 0 /\ t[Len(t)] \in {".", ":"}

\* re.match(r'^\d+\.[\sA-Z]', t)
MatchNumbered(t) ==
  \E k \in 1..Len(t) :
     /\ \A i \in 1..k : t[i] \in Digits
     /\ k + 2 <= Len(t)
     /\ t[k+1] = "."
     /\ t[k+2] \in (Whitespace \cup Upper)

\* re.match(r'^\d+\.\d+', t)
MatchSubNumbered(t) ==
  \E k \in 1..Len(t) :
     /\ \A i \in 1..k : t[i] \in Digits
     /\ k + 2 <= Len(t)
     /\ t[k+1] = "."
     /\ t[k+2] \in Digits

\* variant: the pattern r'^\d+\.[A-Z]'
IsNumberedH1UpperOnly(t) ==
  /\ \E k \in 1..Len(t) :
        /\ \A i \in 1..k : t[i] \in Digits
        /\ k + 2 <= Len(t)
        /\ t[k+1] = "."
        /\ t[k+2] \in Upper
  /\ ~MatchSubNumbered(t)
\* the test of step 5 on a candidate's text
IsNumberedH1(t) == MatchNumbered(t) /\ ~MatchSubNumbered(t)

\* ------------------------------------------------------------ collections
\* A Counter is the sequence of its [key, n] entries in insertion order.
CounterAdd(c, k, n) ==
  IF \E i \in DOMAIN c : c[i].key = k
  THEN [i \in DOMAIN c |->
          IF c[i].key = k THEN [key |-> k, n |-> c[i].n + n] ELSE c[i]]
  ELSE Append(c, [key |-> k, n |-> n])

\* Counter.most_common(1)[0][0]: the first entry of the highest count
MostCommon(c) ==
  LET i == CHOOSE i \in DOMAIN c :
             /\ \A j \in DOMAIN c : c[j].n <= c[i].n
             /\ \A j \in DOMAIN c : j < i => c[j].n < c[i].n
  IN c[i].key

\* Counter(l['style'] for l in ls)
RECURSIVE CountStyles(_)
CountStyles(ls) ==
  IF Len(ls) = 0 THEN <<>>
  ELSE CounterAdd(CountStyles(SubSeq(ls, 1, Len(ls) - 1)), ls[Len(ls)].style, 1)

\* a < b for two key tuples of integers of one length
KeyLess(a, b) ==
  \E i \in DOMAIN a : a[i] < b[i] /\ \A j \in DOMAIN a : j < i => a[j] = b[j]

\* sorted(s, key=...), keys[i] the key of s[i]: ascending, equal keys in
\* their first order
StableSort(s, keys) ==
  LET Rank(j) == 1 + Cardinality({k \in DOMAIN s :
                        \/ KeyLess(keys[k], keys[j])
                        \/ (keys[k] = keys[j] /\ k < j)})
  IN [i \in DOMAIN s |-> s[CHOOSE j \in DOMAIN s : Rank(j) = i]]

\* sorted(s, key=..., reverse=True): descending, equal keys in their first
\* order
StableSortReverse(s, keys) ==
  LET Rank(j) == 1 + Cardinality({k \in DOMAIN s :
                        \/ KeyLess(keys[j], keys[k])
                        \/ (keys[k] = keys[j] /\ k < j)})
  IN [i \in DOMAIN s |-> s[CHOOSE j \in DOMAIN s : Rank(j) = i]]

RECURSIVE Concat(_)
Concat(ss) == IF Len(ss) = 0 THEN <<>> ELSE ss[1] \o Concat(Tail(ss))

\* ---------------------------------------------------------- line aggregator
\* round(s['size']) of a size in half points: halves go to the even integer
Round(h) ==
  IF h % 2 = 0 THEN h \div 2
  ELSE IF ((h - 1) \div 2) % 2 = 0 THEN (h - 1) \div 2 ELSE (h + 1) \div 2

\* (s['flags'] & 2**1) != 0
IsBold(flags) == (flags \div BoldBit) % 2 # 0

StyleTuple(s) == <<Round(s.size), IsBold(s.flags), s.color>>

\* span_styles after the loop over line['spans']
RECURSIVE SpanStyles(_)
SpanStyles(spans) ==
  IF Len(spans) = 0 THEN <<>>
  ELSE LET s == spans[Len(spans)]
       IN CounterAdd(SpanStyles(SubSeq(spans, 1, Len(spans) - 1)),
                     StyleTuple(s), Len(s.text))

\* variant: the style of the first span alone
FirstSpanStyle(spans) == StyleTuple(spans[1])
\* span_styles.most_common(1)[0][0]
DominantStyle(spans) == MostCommon(SpanStyles(spans))

LineText(spans) == Strip(JoinTexts([i \in DOMAIN spans |-> spans[i].text]))

\* ------------------------------------------------------------------ state
VARIABLES pc, page_num, doc, lines_data, style_counts, body_style, title,
          all_candidates, numbered_h1_candidates, h1_style, heading_groups,
          level_map, outline, result

vars == <<pc, page_num, doc, lines_data, style_counts, body_style, title,
          all_candidates, numbered_h1_candidates, h1_style, heading_groups,
          level_map, outline, result>>

locals == <<body_style, title, all_candidates, numbered_h1_candidates,
            h1_style, heading_groups, level_map, outline, result>>

Init ==
  /\ pc = "read"
  /\ page_num = 0
  /\ doc = <<>>
  /\ lines_data = <<>>
  /\ style_counts = <<>>
  /\ body_style = None
  /\ title = <<>>
  /\ all_candidates = <<>>
  /\ numbered_h1_candidates = <<>>
  /\ h1_style = None
  /\ heading_groups = <<>>
  /\ level_map = <<>>
  /\ outline = <<>>
  /\ result = <<>>

\* ------------------------------------------------------- step 1: the lines
\* One pass of the loop body over the next line of the page stream.
ReadLine(item, limit) ==
  /\ pc = "read"
  /\ Len(doc) < limit
  /\ doc' = Append(doc, item)
  /\ IF item.type # 0 \/ Len(item.spans) = 0
     THEN UNCHANGED <<lines_data, style_counts>>
     ELSE LET dominant_style == DominantStyle(item.spans)
              line_text == LineText(item.spans)
          IN IF Len(line_text) = 0
             THEN UNCHANGED <<lines_data, style_counts>>
             ELSE /\ lines_data' = Append(lines_data,
                       [text |-> line_text, style |-> dominant_style,
                        font_size |-> dominant_style[1],
                        page |-> page_num + 1, bbox |-> item.bbox])
                  /\ style_counts' = CounterAdd(style_counts, dominant_style, 1)
  /\ UNCHANGED <<pc, page_num>>
  /\ UNCHANGED locals

\* enumerate(doc) moves to the next page
NextPage ==
  /\ pc = "read"
  /\ page_num + 1 < MaxPages
  /\ page_num' = page_num + 1
  /\ UNCHANGED <<pc, doc, lines_data, style_counts>>
  /\ UNCHANGED locals

\* ------------------------------------------------------ steps 2 to 8
BodyStyle(sc) == IF Len(sc) > 0 THEN MostCommon(sc) ELSE None

\* variant: sorted by font size ascending
Page1LinesAscending(ld) ==
  LET OnPage1(l) == l.page = 1
      p1 == SelectSeq(ld, OnPage1)
  IN StableSort(p1, [i \in DOMAIN p1 |-> <<p1[i].font_size>>])
\* sorted(... if l['page'] == 1, key=font_size, reverse=True)
Page1Lines(ld) ==
  LET OnPage1(l) == l.page = 1
      p1 == SelectSeq(ld, OnPage1)
  IN StableSortReverse(p1, [i \in DOMAIN p1 |-> <<p1[i].font_size>>])

Title(ld) ==
  LET page1_lines == Page1Lines(ld)
  IN IF Len(page1_lines) > 0 THEN page1_lines[1].text ELSE UntitledDocument

\* variant: the body style not excluded
AllCandidatesTitleOnly(ld, body, ttl) ==
  LET Cand(l) == l.text # ttl
  IN SelectSeq(ld, Cand)
\* [l for l in lines_data if l['style'] != body_style and l['text'] != title]
AllCandidates(ld, body, ttl) ==
  LET Cand(l) == l.style # body /\ l.text # ttl
  IN SelectSeq(ld, Cand)

NumberedH1Candidates(cands) ==
  LET Numbered(l) == IsNumberedH1(l.text)
  IN SelectSeq(cands, Numbered)

\* variant: WordLimit words allowed, ':' not tested
ValidHeadingLoose(l) == WordCount(l.text) <= WordLimit /\ l.text[Len(l.text)] # "."
\* len(text.split()) < 40 and not text.endswith(('.', ':'))
ValidHeading(l) == WordCount(l.text) < WordLimit /\ ~EndsWithStop(l.text)

\* variant: the numbered candidates taken among the valid headings only
VoteAmongValid(cands) ==
  LET numbered == NumberedH1Candidates(SelectSeq(cands, ValidHeading))
  IN IF Len(numbered) > 0 THEN MostCommon(CountStyles(numbered))
     ELSE IF Len(cands) > 0 THEN MostCommon(CountStyles(cands))
     ELSE None
\* variant: no precedence of the numbered candidates
VoteAmongAll(cands) ==
  IF Len(cands) > 0 THEN MostCommon(CountStyles(cands)) ELSE None
\* h1_style of step 5
H1Style(cands) ==
  LET numbered == NumberedH1Candidates(cands)
  IN IF Len(numbered) > 0 THEN MostCommon(CountStyles(numbered))
     ELSE IF Len(cands) > 0 THEN MostCommon(CountStyles(cands))
     ELSE None

\* heading_groups: the entries [style, lines] in insertion order
HeadingGroups(cands) ==
  LET valid == SelectSeq(cands, ValidHeading)
      keys == CountStyles(valid)
  IN [i \in DOMAIN keys |->
        LET InGroup(l) == l.style = keys[i].key
        IN [style |-> keys[i].key, lines |-> SelectSeq(valid, InGroup)]]

\* sorted([s for s in heading_groups if s[0] < h1_font_size], key=s[0],
\* reverse=True)
SubheadingStyles(groups, h1) ==
  LET styles == [i \in DOMAIN groups |-> groups[i].style]
      Smaller(s) == s[1] < h1[1]
      subs == SelectSeq(styles, Smaller)
  IN StableSortReverse(subs, [i \in DOMAIN subs |-> <<subs[i][1]>>])

\* variant: every smaller style beyond the largest is given H3
LevelMapAllSubs(groups, h1) ==
  LET styles == {groups[i].style : i \in DOMAIN groups}
      subs == SubheadingStyles(groups, h1)
  IN [s \in styles |->
        IF s[1] >= h1[1] THEN "H1"
        ELSE IF s = subs[1] THEN "H2" ELSE "H3"]
\* level_map of step 7
LevelMap(groups, h1) ==
  LET styles == {groups[i].style : i \in DOMAIN groups}
      subs == SubheadingStyles(groups, h1)
      top == {s \in styles : s[1] >= h1[1]}
      h2 == IF Len(subs) > 0 THEN {subs[1]} ELSE {}
      h3 == IF Len(subs) > 1 THEN {subs[2]} ELSE {}
  IN [s \in top \cup h2 \cup h3 |->
        IF s \in top THEN "H1" ELSE IF s \in h2 THEN "H2" ELSE "H3"]

\* outline as the loop over heading_groups leaves it
OutlineParts(groups, lm) ==
  LET Levelled(g) == g.style \in DOMAIN lm
      kept == SelectSeq(groups, Levelled)
      parts == [i \in DOMAIN kept |->
                  [j \in DOMAIN kept[i].lines |->
                     [level |-> lm[kept[i].style],
                      text |-> kept[i].lines[j].text,
                      style |-> kept[i].lines[j].style,
                      font_size |-> kept[i].lines[j].font_size,
                      page |-> kept[i].lines[j].page,
                      bbox |-> kept[i].lines[j].bbox]]]
  IN Concat(parts)

\* variant: sorted by page alone
OutlineByPage(groups, lm) ==
  LET o == OutlineParts(groups, lm)
  IN StableSort(o, [i \in DOMAIN o |-> <<o[i].page>>])
\* outline after outline.sort(key=(page, bbox[1]))
Outline(groups, lm) ==
  LET o == OutlineParts(groups, lm)
  IN StableSort(o, [i \in DOMAIN o |-> <<o[i].page, o[i].bbox[2]>>])

FinalOutline(o) ==
  [i \in DOMAIN o |-> [level |-> o[i].level, text |-> o[i].text, page |-> o[i].page]]

\* if not lines_data: return the sentinel
ReturnEmpty ==
  /\ pc = "read"
  /\ Len(lines_data) = 0
  /\ pc' = "done"
  /\ result' = [title |-> EmptyDocument, outline |-> <<>>]
  /\ UNCHANGED <<page_num, doc, lines_data, style_counts, body_style, title,
                 all_candidates, numbered_h1_candidates, h1_style,
                 heading_groups, level_map, outline>>

\* if not h1_style: return the title with an empty outline
ReturnNoHeadings ==
  /\ pc = "read"
  /\ Len(lines_data) > 0
  /\ LET body == BodyStyle(style_counts)
         ttl == Title(lines_data)
         cands == AllCandidates(lines_data, body, ttl)
         h1 == H1Style(cands)
     IN /\ h1 = None
        /\ pc' = "done"
        /\ body_style' = body
        /\ title' = ttl
        /\ all_candidates' = cands
        /\ numbered_h1_candidates' = NumberedH1Candidates(cands)
        /\ h1_style' = h1
        /\ result' = [title |-> ttl, outline |-> <<>>]
  /\ UNCHANGED <<page_num, doc, lines_data, style_counts, heading_groups,
                 level_map, outline>>

ReturnOutline ==
  /\ pc = "read"
  /\ Len(lines_data) > 0
  /\ LET body == BodyStyle(style_counts)
         ttl == Title(lines_data)
         cands == AllCandidates(lines_data, body, ttl)
         h1 == H1Style(cands)
         groups == HeadingGroups(cands)
         lm == LevelMap(groups, h1)
         o == Outline(groups, lm)
     IN /\ h1 # None
        /\ pc' = "done"
        /\ body_style' = body
        /\ title' = ttl
        /\ all_candidates' = cands
        /\ numbered_h1_candidates' = NumberedH1Candidates(cands)
        /\ h1_style' = h1
        /\ heading_groups' = groups
        /\ level_map' = lm
        /\ outline' = o
        /\ result' = [title |-> ttl, outline |-> FinalOutline(o)]
  /\ UNCHANGED <<page_num, doc, lines_data, style_counts>>

\* ------------------------------------------------------------ the inputs
Span(t, size, flags, color) ==
  [text |-> t, size |-> size, flags |-> flags, color |-> color]
Line(spans, y) == [type |-> 0, spans |-> spans, bbox |-> <<0, y, 100, y + 10>>]
ImageBlock == [type |-> 1, spans |-> <<>>, bbox |-> <<0, 0, 100, 100>>]

\* n one-letter words
RECURSIVE Words(_)
Words(n) == IF n <= 1 THEN <<"w">> ELSE <<"w", " ">> \o Words(n - 1)

Plain(t) == Span(t, 20, 0, 0)
Bold14(t) == Span(t, 28, 18, 0)
Bold12(t) == Span(t, 24, 2, 255)
Big(t) == Span(t, 40, 0, 0)

\* Documents of short lines of three styles, on several pages.
MainItems ==
  { Line(<<Plain(<<"a">>)>>, 1),
    Line(<<Plain(<<"a">>), Bold14(<<"A">>)>>, 2),
    Line(<<Bold14(<<"A">>)>>, 1),
    Line(<<Bold14(<<"A">>)>>, 2),
    Line(<<Bold14(<<"C">>)>>, 3),
    Line(<<Bold12(<<"B">>)>>, 1),
    Line(<<Bold12(<<"B">>)>>, 2),
    Line(<<Bold12(<<"A">>)>>, 3),
    Line(<<Bold14(<<"A", ".">>)>>, 1) }

Next ==
  \/ \E item \in MainItems : ReadLine(item, MaxLines)
  \/ NextPage
  \/ ReturnEmpty
  \/ ReturnNoHeadings
  \/ ReturnOutline

Spec == Init /\ [][Next]_vars

\* Documents with blocks and lines that yield no text.
EmptyItems ==
  { ImageBlock,
    Line(<<>>, 1),
    Line(<<Plain(<<" ">>), Bold14(<<"\t", " ">>)>>, 2),
    Line(<<Plain(<<"a">>)>>, 1),
    Line(<<Bold14(<<" ", "A">>)>>, 2) }

NextEmpty ==
  \/ \E item \in EmptyItems : ReadLine(item, MaxLines)
  \/ NextPage
  \/ ReturnEmpty
  \/ ReturnNoHeadings
  \/ ReturnOutline

SpecEmpty == Init /\ [][NextEmpty]_vars

\* One-page documents whose largest text is the body text: lines that end in
\* a stop and lines of WordLimit words, beside short ones.
PruneItems ==
  { Line(<<Big(<<"t">>)>>, 1),
    Line(<<Bold14(Words(WordLimit - 1))>>, 2),
    Line(<<Bold14(<<"A", ".">>)>>, 3),
    Line(<<Bold12(<<"B">>), Bold12(<<":">>)>>, 4),
    Line(<<Bold14(Words(WordLimit))>>, 5) }

NextPrune ==
  \/ \E item \in PruneItems : ReadLine(item, MaxPruneLines)
  \/ ReturnEmpty
  \/ ReturnNoHeadings
  \/ ReturnOutline

SpecPrune == Init /\ [][NextPrune]_vars

\* One-page documents of six styles, the largest the body text.
LevelItems ==
  { Line(<<Big(<<"t">>)>>, 1),
    Line(<<Span(<<"A">>, 32, 2, 0)>>, 2),
    Line(<<Span(<<"A">>, 32, 0, 0)>>, 3),
    Line(<<Span(<<"A">>, 28, 2, 0)>>, 4),
    Line(<<Span(<<"A">>, 24, 2, 0)>>, 5),
    Line(<<Span(<<"A">>, 22, 2, 0)>>, 6) }

NextLevels ==
  \/ \E item \in LevelItems : ReadLine(item, MaxHeadingLines)
  \/ ReturnEmpty
  \/ ReturnNoHeadings
  \/ ReturnOutline

SpecLevels == Init /\ [][NextLevels]_vars

\* One-page documents with numbered and unnumbered lines of two styles.
VoteItems ==
  { Line(<<Big(<<"t">>)>>, 1),
    Line(<<Bold12(<<"B">>)>>, 2),
    Line(<<Bold14(<<"1", ".", " ", "A">>)>>, 3),
    Line(<<Bold14(<<"1", ".", " ", "A", ":">>)>>, 4),
    Line(<<Bold12(<<"2", ".", "B">>)>>, 5),
    Line(<<Bold14(<<"1", ".", "1", " ", "A">>)>>, 6) }

NextVote ==
  \/ \E item \in VoteItems : ReadLine(item, MaxHeadingLines)
  \/ ReturnEmpty
  \/ ReturnNoHeadings
  \/ ReturnOutline

SpecVote == Init /\ [][NextVote]_vars

\* Documents of one line, of up to MaxSpans spans of five kinds and three
\* lengths, or of one bold letter before nineteen letters of nineteen colours.
\* Sizes 20 and 21 (10pt and 10.5pt) round to one size; flags 4 and 18 carry
\* other bits beside the bold bit.
RECURSIVE Chars(_)
Chars(n) == IF n = 0 THEN <<>> ELSE <<"x">> \o Chars(n - 1)

DomSpans ==
  { Span(Chars(n), k[1], k[2], k[3]) :
      n \in {1, 9, 10},
      k \in {<<20, 0, 0>>, <<21, 4, 0>>, <<24, 0, 255>>,
             <<20, 2, 0>>, <<24, 18, 255>>} }

RainbowLine ==
  Line([i \in 1..20 |->
          IF i = 1 THEN Span(<<"x">>, 20, 2, 0) ELSE Span(<<"x">>, 20, 0, i)], 1)

\* the same with eighteen colours, the last on two letters
RainbowLine18 ==
  Line([i \in 1..19 |->
          IF i = 1 THEN Span(<<"x">>, 20, 2, 0)
          ELSE IF i = 19 THEN Span(<<"x", "x">>, 20, 0, i)
          ELSE Span(<<"x">>, 20, 0, i)], 1)

DomItems ==
  { Line(spans, 1) :
      spans \in UNION {[1..n -> DomSpans] : n \in 1..MaxSpans} }
  \cup {RainbowLine, RainbowLine18}

NextDom ==
  \/ pc = "read" /\ Len(doc) = 0 /\ \E item \in DomItems : ReadLine(item, 1)
  \/ ReturnEmpty
  \/ ReturnNoHeadings

SpecDom == Init /\ [][NextDom]_vars

\* Documents of a body line and one line of up to MaxTextLen characters.
Alphabet == {"1", ".", " ", "A", "a"}
MatchTexts == UNION {[1..n -> Alphabet] : n \in 1..MaxTextLen}
MatchBodyLine == Line(<<Span(<<"b">>, 28, 0, 0)>>, 1)

NextMatch ==
  \/ Len(doc) = 0 /\ ReadLine(MatchBodyLine, 2)
  \/ pc = "read" /\ Len(doc) = 1
       /\ \E t \in MatchTexts : ReadLine(Line(<<Plain(t)>>, 2), 2)
  \/ ReturnEmpty
  \/ ReturnNoHeadings
  \/ ReturnOutline

SpecMatch == Init /\ [][NextMatch]_vars

\* ------------------------------------------------------------ properties
Done == pc = "done"

\* the lines of the document that are not of the body style and do not
\* repeat the title, and those among them that look numbered
AllCands ==
  {i \in DOMAIN lines_data :
     lines_data[i].style # body_style /\ lines_data[i].text # title}
NumberedCands == {i \in AllCands : IsNumberedH1(lines_data[i].text)}
SurvivingCands == {i \in AllCands : ValidHeading(lines_data[i])}

Votes(S, s) == Cardinality({i \in S : lines_data[i].style = s})
Winner(S, s) ==
  /\ \E i \in S : lines_data[i].style = s
  /\ \A j \in S : Votes(S, lines_data[j].style) <= Votes(S, s)

\* line i of the document is an entry of the outline
InOutline(i) ==
  \E k \in DOMAIN outline :
     /\ outline[k].text = lines_data[i].text
     /\ outline[k].style = lines_data[i].style
     /\ outline[k].page = lines_data[i].page
     /\ outline[k].bbox = lines_data[i].bbox

\* the returned outline is the internal one, projected, in the same order
Projected ==
  /\ Len(result.outline) = Len(outline)
  /\ \A k \in DOMAIN outline :
        result.outline[k] = [level |-> outline[k].level,
                             text |-> outline[k].text,
                             page |-> outline[k].page]

\* C1 (body exclusion): body_style is a most frequent dominant style of the
\* document's lines, and no entry of the outline has it.
BodyExclusion ==
  Done /\ Len(lines_data) > 0 =>
    /\ Winner(DOMAIN lines_data, body_style)
    /\ \A k \in DOMAIN outline : outline[k].style # body_style
    /\ \A i \in DOMAIN lines_data :
          lines_data[i].style = body_style => ~InOutline(i)
    /\ Len(result.outline) = Len(outline)

\* a body line that neither repeats the title nor would be pruned is left
\* out of a non-empty outline
BodyExclusionWitness ==
  /\ Done
  /\ Len(outline) > 0
  /\ \E i \in DOMAIN lines_data :
        /\ lines_data[i].style = body_style
        /\ lines_data[i].text # title
        /\ ValidHeading(lines_data[i])

OutlineStyles == {outline[k].style : k \in DOMAIN outline}
OutlineLevels == {outline[k].level : k \in DOMAIN outline}

\* C2 (level cap) as claimed: the outline's lines carry at most 3 distinct
\* StyleKeys.
LevelCapThreeStyles == Done => Cardinality(OutlineStyles) <= 3

\* C2 as amended: at most three levels; H1 is carried by every surviving
\* style at least as large as H1Style, H2 and H3 by one style each, the two
\* largest of the smaller surviving styles; any further smaller style is
\* absent from the outline.
LevelCap ==
  Done /\ h1_style # None =>
    LET surviving == {lines_data[i].style : i \in SurvivingCands}
        top == {s \in surviving : s[1] >= h1_style[1]}
        subs == surviving \ top
        shown == OutlineStyles \ top
    IN /\ OutlineLevels \subseteq {"H1", "H2", "H3"}
       /\ \A k \in DOMAIN outline :
             outline[k].level = "H1" <=> outline[k].style \in top
       /\ \A k, m \in DOMAIN outline :
             outline[k].level = outline[m].level /\ outline[k].level # "H1"
               => outline[k].style = outline[m].style
       /\ \A k, m \in DOMAIN outline :
             outline[k].level = "H2" /\ outline[m].level = "H3"
               => outline[k].style[1] >= outline[m].style[1]
       /\ top \subseteq OutlineStyles
       /\ shown \subseteq subs
       /\ Cardinality(shown) = IF Cardinality(subs) < 2 THEN Cardinality(subs) ELSE 2
       /\ \A s \in shown : \A u \in subs \ shown : s[1] >= u[1]
       /\ \A i \in SurvivingCands :
             InOutline(i) <=> lines_data[i].style \in OutlineStyles

\* all three levels are present and a third smaller surviving style is left
\* out
LevelCapWitness ==
  /\ Done
  /\ OutlineLevels = {"H1", "H2", "H3"}
  /\ \E i \in SurvivingCands :
        /\ lines_data[i].style \notin OutlineStyles
        /\ lines_data[i].style[1] < h1_style[1]

\* C3 (numbered-H1 precedence): with a numbered candidate, h1_style is a
\* most frequent style among the numbered candidates; with none, a most
\* frequent style among all candidates; with no candidate there is none.
NumberedPrecedence ==
  Done /\ Len(lines_data) > 0 =>
    IF NumberedCands # {} THEN Winner(NumberedCands, h1_style)
    ELSE IF AllCands # {} THEN Winner(AllCands, h1_style)
    ELSE h1_style = None

\* the numbered candidates' style wins although another style is more
\* frequent among all candidates
NumberedPrecedenceWitness ==
  /\ Done
  /\ NumberedCands # {}
  /\ \E i \in AllCands :
        Votes(AllCands, lines_data[i].style) > Votes(AllCands, h1_style)

\* C4 (ordering): the outline is in page order and, within a page, in the
\* order of the lines' top edges; the returned outline keeps that order.
Ordering ==
  Done =>
    /\ \A k, m \in DOMAIN outline :
          k < m =>
            \/ outline[k].page < outline[m].page
            \/ /\ outline[k].page = outline[m].page
               /\ outline[k].bbox[2] <= outline[m].bbox[2]
    /\ Projected

\* two lines of the outline were read against the reading order
OrderingWitness ==
  /\ Done
  /\ \E a, b \in DOMAIN lines_data :
        /\ a < b
        /\ InOutline(a)
        /\ InOutline(b)
        /\ lines_data[a].page = lines_data[b].page
        /\ lines_data[b].bbox[2] < lines_data[a].bbox[2]

\* C5 (pruning): no entry of the returned outline has WordLimit or more
\* words or ends with '.' or ':'.
Pruning ==
  Done =>
    /\ \A k \in DOMAIN result.outline :
          LET t == result.outline[k].text
          IN /\ WordCount(t) < WordLimit
             /\ t[Len(t)] \notin {".", ":"}
    /\ \A i \in AllCands : ~ValidHeading(lines_data[i]) => ~InOutline(i)

\* a line ending with a stop and a line of WordLimit words, both of a style
\* that has a level, are left out
PruningWitness ==
  /\ Done
  /\ \E i, j \in AllCands :
        /\ lines_data[i].style \in DOMAIN level_map
        /\ lines_data[j].style \in DOMAIN level_map
        /\ EndsWithStop(lines_data[i].text)
        /\ WordCount(lines_data[i].text) < WordLimit
        /\ ~EndsWithStop(lines_data[j].text)
        /\ WordCount(lines_data[j].text) = WordLimit

\* C6 (title selection): the title is the text of the first page-1 line of
\* the largest font size, or "Untitled Document" when page 1 has no line.
TitleSelection ==
  Done /\ Len(lines_data) > 0 =>
    LET p1 == {i \in DOMAIN lines_data : lines_data[i].page = 1}
    IN /\ result.title = title
       /\ IF p1 = {} THEN title = UntitledDocument
          ELSE \E i \in p1 :
                 /\ title = lines_data[i].text
                 /\ \A j \in p1 :
                       /\ lines_data[j].font_size <= lines_data[i].font_size
                       /\ j < i => lines_data[j].font_size < lines_data[i].font_size

\* two page-1 lines of the largest size and different texts, after a smaller
\* line: the first of the two gives the title
TitleSelectionWitness ==
  /\ Done
  /\ \E h, i, j \in DOMAIN lines_data :
        /\ h < i /\ i < j
        /\ lines_data[j].page = 1
        /\ lines_data[h].font_size < lines_data[i].font_size
        /\ lines_data[i].font_size = lines_data[j].font_size
        /\ lines_data[i].text # lines_data[j].text
        /\ title = lines_data[i].text

\* an item of the page stream with a character that is not whitespace
HasText(item) ==
  /\ item.type = 0
  /\ \E k \in DOMAIN item.spans :
        \E c \in DOMAIN item.spans[k].text :
           item.spans[k].text[c] \notin Whitespace

\* C7 (empty document): a document none of whose lines has text returns the
\* sentinel.
EmptyDocumentSentinel ==
  Done /\ (\A i \in DOMAIN doc : ~HasText(doc[i])) =>
    result = [title |-> EmptyDocument, outline |-> <<>>]

\* an image block, a line with no spans and a line of whitespace were read
EmptyDocumentWitness ==
  /\ Done
  /\ result = [title |-> EmptyDocument, outline |-> <<>>]
  /\ \E i \in DOMAIN doc : doc[i].type # 0
  /\ \E i \in DOMAIN doc : doc[i].type = 0 /\ Len(doc[i].spans) = 0
  /\ \E i \in DOMAIN doc : doc[i].type = 0 /\ Len(doc[i].spans) > 0

\* the items that became lines, in order: Kept[i] became lines_data[i]
Kept == SelectSeq(doc, HasText)

RECURSIVE SumLen(_, _)
SumLen(S, spans) ==
  IF S = {} THEN 0
  ELSE LET i == CHOOSE i \in S : TRUE
       IN Len(spans[i].text) + SumLen(S \ {i}, spans)

StyleChars(spans, s) ==
  SumLen({i \in DOMAIN spans : StyleTuple(spans[i]) = s}, spans)
BoldChars(spans) ==
  SumLen({i \in DOMAIN spans : IsBold(spans[i].flags)}, spans)
AllChars(spans) == SumLen(DOMAIN spans, spans)
FirstWith(spans, s) ==
  CHOOSE i \in DOMAIN spans :
     /\ StyleTuple(spans[i]) = s
     /\ \A j \in DOMAIN spans : j < i => StyleTuple(spans[j]) # s

\* C8 (dominant style) as claimed: a line with 5% of its characters in bold
\* spans and 95% in non-bold spans has a non-bold style.
DominantStyleNonBold ==
    \A i \in DOMAIN lines_data :
       LET spans == Kept[i].spans
       IN BoldChars(spans) > 0 /\ AllChars(spans) = 20 * BoldChars(spans)
            => ~lines_data[i].style[2]

\* C8 as amended: a line's style is the style of the highest cumulative
\* character count, the first seen among equals; so a line with 5% of its
\* characters in bold spans and 95% in non-bold spans of fewer than 19
\* distinct styles has a non-bold style.
DominantStyleStability ==
    \A i \in DOMAIN lines_data :
       LET spans == Kept[i].spans
           s == lines_data[i].style
           seen == {StyleTuple(spans[k]) : k \in DOMAIN spans}
       IN /\ s \in seen
          /\ lines_data[i].font_size = s[1]
          /\ \A u \in seen :
                /\ StyleChars(spans, u) <= StyleChars(spans, s)
                /\ StyleChars(spans, u) = StyleChars(spans, s)
                     => FirstWith(spans, s) <= FirstWith(spans, u)
          /\ /\ BoldChars(spans) > 0
             /\ AllChars(spans) = 20 * BoldChars(spans)
             /\ Cardinality({u \in seen : ~u[2]}) < 19
             => ~s[2]

\* a line that starts with a bold span of 5% of its characters, the other
\* 95% in one non-bold style over two spans of different raw sizes
DominantStyleWitness ==
  /\ \E i \in DOMAIN lines_data :
        LET spans == Kept[i].spans
        IN /\ Len(spans) = 3
           /\ IsBold(spans[1].flags)
           /\ spans[2].size # spans[3].size
           /\ AllChars(spans) = 20 * BoldChars(spans)
           /\ StyleChars(spans, lines_data[i].style) = 19 * BoldChars(spans)
           /\ ~lines_data[i].style[2]

\* the length of the run of digits a text starts with
DigitRun(t) ==
  CHOOSE k \in 0..Len(t) :
     /\ \A i \in 1..k : t[i] \in Digits
     /\ k = Len(t) \/ t[k+1] \notin Digits

\* digits, a period, a space, an uppercase letter
SpaceThenUpper(t) ==
  LET k == DigitRun(t)
  IN /\ k >= 1
     /\ Len(t) >= k + 3
     /\ t[k+1] = "."
     /\ t[k+2] = " "
     /\ t[k+3] \in Upper

\* digits, a period, then a whitespace character or an uppercase letter
SpaceOrUpper(t) ==
  LET k == DigitRun(t)
  IN /\ k >= 1
     /\ Len(t) >= k + 2
     /\ t[k+1] = "."
     /\ t[k+2] \in Whitespace \cup Upper

\* digits, a period, digits
SubNumbered(t) ==
  LET k == DigitRun(t)
  IN k >= 1 /\ Len(t) >= k + 2 /\ t[k+1] = "." /\ t[k+2] \in Digits

Counted(l) ==
  \E k \in DOMAIN numbered_h1_candidates : numbered_h1_candidates[k] = l

\* C9 (numbered pattern) as claimed: a candidate counts for the vote exactly
\* when its text is digits, period, space, uppercase letter and not digits,
\* period, digits.
NumberedPatternSpaceThenUpper ==
  Done =>
    \A k \in DOMAIN all_candidates :
       Counted(all_candidates[k]) <=>
         (SpaceThenUpper(all_candidates[k].text)
            /\ ~SubNumbered(all_candidates[k].text))

\* C9 as amended: exactly when its text is digits, a period, and then a
\* whitespace character or an uppercase letter (and not digits, period,
\* digits).
NumberedPattern ==
  Done =>
    /\ \A k \in DOMAIN all_candidates :
          Counted(all_candidates[k]) <=>
            (SpaceOrUpper(all_candidates[k].text)
               /\ ~SubNumbered(all_candidates[k].text))
    /\ \A k \in DOMAIN numbered_h1_candidates :
          \E i \in NumberedCands : lines_data[i] = numbered_h1_candidates[k]

\* a candidate with a lowercase letter after "1. " is counted
NumberedPatternWitness ==
  /\ Done
  /\ \E k \in DOMAIN all_candidates :
        LET t == all_candidates[k].text
        IN /\ Counted(all_candidates[k])
           /\ Len(t) = 4
           /\ t[3] = " "
           /\ t[4] \notin Upper
           /\ h1_style = all_candidates[k].style

PrunedNumbered == {i \in NumberedCands : ~ValidHeading(lines_data[i])}

\* C10 (two candidate sets): a numbered candidate that is pruned is counted
\* in the vote for h1_style and is no entry of the outline; the outline's
\* entries are surviving candidates, at H1 exactly when at least as large as
\* h1_style.
TwoLevelCandidates ==
  Done /\ Len(lines_data) > 0 =>
    /\ \A i \in PrunedNumbered :
          /\ Counted(lines_data[i])
          /\ ~InOutline(i)
          /\ Votes(NumberedCands, h1_style) >= Votes(NumberedCands, lines_data[i].style)
          /\ Votes(NumberedCands, h1_style) >= 1
    /\ \A k \in DOMAIN outline :
          /\ \E i \in SurvivingCands : lines_data[i].text = outline[k].text
                                         /\ lines_data[i].style = outline[k].style
          /\ outline[k].level = "H1" <=> outline[k].font_size >= h1_style[1]

\* the only numbered candidate is pruned, its style is h1_style although
\* another style is more frequent, and the outline holds smaller lines only
TwoLevelCandidatesWitness ==
  /\ Done
  /\ PrunedNumbered # {}
  /\ NumberedCands = PrunedNumbered
  /\ \E i \in AllCands :
        Votes(AllCands, lines_data[i].style) > Votes(AllCands, h1_style)
  /\ Len(outline) > 0
  /\ \A k \in DOMAIN outline : outline[k].level # "H1"

====
